---- MODULE Spec2Model ----
(***************************************************************************)
(* Model of the acquisition pipeline of downloader.py: the command-line    *)
(* block, process_spotify_link, download_youtube_track_for_spotify and     *)
(* sanitize_filename.                                                      *)
(*                                                                         *)
(* Text is a sequence of one-character strings, so that sanitize_filename  *)
(* and the construction of file names are computed character by character. *)
(* A path is the sequence of its components below base_output_path.        *)
(***************************************************************************)
EXTENDS Integers, Sequences, FiniteSets, TLC

VARIABLES
    entry,               \* how the run began: "cli" (the script) or "call" (a caller)
    pc,                  \* position of the run
    args,                \* [url, simulate]: the parsed command line / call arguments
    creds,               \* SPOTIPY_CLIENT_ID and SPOTIPY_CLIENT_SECRET are both set
    catalog,             \* catalog provider: the records behind the reference
    limit,               \* catalog provider: entries per page of a track listing
    results,             \* number of the listing page held in `results`
    tracks_to_download,  \* the list built by metadata resolution
    i,                   \* loop index of `for i, track_item in enumerate(...)`
    track_item,          \* the current item (after the detail fetch)
    yt_url_result,       \* result of the locator search for the current item
    youtube_video_url,   \* the media reference found for the current item
    dirs,                \* file system: the directories that exist
    files,               \* file system: path -> content of the files that exist
    calls,               \* the external calls issued so far, in order
    log,                 \* console output: one record per item outcome line
    ret,                 \* value returned by the fetch step that just ended
    diag,                \* diagnostic printed by the fetch step that just ended
    result,              \* what subprocess.run gave for the tool run under study
    player,              \* the AudioPlayer object and the state of pygame.mixer.music
    play_pause_button,   \* text of the Play/Pause button
    focus,               \* iid of the focused row of the track list ("" when none)
    db                   \* music_library.db: its tables

vars == <<entry, pc, args, creds, catalog, limit, results, tracks_to_download, i,
          track_item, yt_url_result, youtube_video_url, dirs, files, calls, log,
          ret, diag, result, player, play_pause_button, focus, db>>

-----------------------------------------------------------------------------
(* Bounds of the model *)

MaxTracks == 3
MaxPageSize == 2

-----------------------------------------------------------------------------
(* Text *)

\* name[:150]
MaxNameLen == 150

Whitespace == {" ", "\t", "\n"}

RECURSIVE Str(_)
\* a sequence of characters as one string
Str(s) == IF s = <<>> THEN "" ELSE Head(s) \o Str(Tail(s))

\* only the first occurrence is replaced
Replace_FirstOnly(s, old, new) ==
    IF \A k \in DOMAIN s : s[k] # old THEN s
    ELSE LET k == CHOOSE j \in DOMAIN s : s[j] = old /\ \A m \in 1..(j - 1) : s[m] # old
         IN  SubSeq(s, 1, k - 1) \o new \o SubSeq(s, k + 1, Len(s))

RECURSIVE Replace(_, _, _)
\* str.replace(old, new) for a one-character `old`
Replace(s, old, new) ==
    IF s = <<>> THEN <<>>
    ELSE IF Len(s) = 1 THEN (IF s[1] = old THEN new ELSE s)
    ELSE Replace(SubSeq(s, 1, Len(s) \div 2), old, new)
             \o Replace(SubSeq(s, (Len(s) \div 2) + 1, Len(s)), old, new)

\* s[:n]
Take(s, n) == SubSeq(s, 1, IF Len(s) < n THEN Len(s) ELSE n)

RECURSIVE LStrip(_)
LStrip(s) == IF s # <<>> /\ Head(s) \in Whitespace THEN LStrip(Tail(s)) ELSE s

RECURSIVE RStrip(_)
RStrip(s) ==
    IF s # <<>> /\ s[Len(s)] \in Whitespace THEN RStrip(SubSeq(s, 1, Len(s) - 1)) ELSE s

\* str.strip()
Strip(s) == RStrip(LStrip(s))

\* the name is stripped first and cut to length afterwards
sanitize_filename_CutLast(name) ==
    Take(Strip(Replace(Replace(Replace(Replace(Replace(Replace(Replace(Replace(Replace(
        name, "/", <<"-">>), "\\", <<"-">>), ":", <<" ", "-">>), "*", <<"_">>), "?", <<>>),
        "\"", <<"'">>), "<", <<"_">>), ">", <<"_">>), "|", <<"_">>)), MaxNameLen)

sanitize_filename(name) ==
    LET n1 == Replace(name, "/", <<"-">>)
        n2 == Replace(n1, "\\", <<"-">>)
        n3 == Replace(n2, ":", <<" ", "-">>)
        n4 == Replace(n3, "*", <<"_">>)
        n5 == Replace(n4, "?", <<>>)
        n6 == Replace(n5, "\"", <<"'">>)
        n7 == Replace(n6, "<", <<"_">>)
        n8 == Replace(n7, ">", <<"_">>)
        n9 == Replace(n8, "|", <<"_">>)
    IN  Strip(Take(n9, MaxNameLen))

Digits == <<"0", "1", "2", "3", "4", "5", "6", "7", "8", "9">>

RECURSIVE StrOfNat(_)
\* str(n) for a natural number
StrOfNat(n) ==
    IF n < 10 THEN <<Digits[n + 1]>> ELSE StrOfNat(n \div 10) \o <<Digits[(n % 10) + 1]>>

RECURSIVE zfill(_, _)
\* str.zfill(width)
zfill(s, width) == IF Len(s) >= width THEN s ELSE zfill(<<"0">> \o s, width)

RECURSIVE SplitFirst(_, _)
\* str.split(sep)[0] for a one-character sep
SplitFirst(s, sep) ==
    IF s = <<>> \/ Head(s) = sep THEN <<>> ELSE <<Head(s)>> \o SplitFirst(Tail(s), sep)

RECURSIVE JoinNames(_)
\* ", ".join(names)
JoinNames(names) ==
    IF names = <<>> THEN <<>>
    ELSE IF Len(names) = 1 THEN names[1]
    ELSE names[1] \o <<",", " ">> \o JoinNames(Tail(names))

\* os.path.join below the base directory: empty components vanish
PathJoin(parts) == SelectSeq(parts, LAMBDA c : c # "")

-----------------------------------------------------------------------------
(* The catalog provider's records *)

T_Intro == <<"I", "n", "t", "r", "o">>
T_SongA == <<"S", "o", "n", "g", " ", "A">>
T_SongB == <<"S", "o", "n", "g", " ", "B">>
A_Ann == <<"A", "n", "n">>
L_Demo == <<"D", "e", "m", "o">>

\* A record of a track listing.  thin: the record has no 'album' key (a
\* simplified track object); has_number: it has a 'track_number' key;
\* id = "": it has no 'id'.
Entry(id, name, has_number, track_number, thin) ==
    [id |-> id, name |-> name, artists |-> <<A_Ann>>, album_name |-> L_Demo,
     has_number |-> has_number, track_number |-> track_number, thin |-> thin]

E_Intro == Entry("t1", T_Intro, FALSE, 0, FALSE)
E_SongA == Entry("t2", T_SongA, TRUE, 1, TRUE)
E_SongB == Entry("t3", T_SongB, TRUE, 2, FALSE)
E_SongAQ == Entry("t4", <<"S", "o", "n", "g", " ", "A", "?">>, TRUE, 1, FALSE)
E_NoId == Entry("", T_SongB, TRUE, 2, TRUE)

Pool == {E_Intro, E_SongA, E_SongB, E_SongAQ, E_NoId}

\* Records with other artist and album fields: an artist whose name holds a
\* comma, two artists, no artist and no album name.
A_Bob == <<"B", "o", "b">>

Record(id, name, artists, album, number, thin) ==
    [id |-> id, name |-> name, artists |-> artists, album_name |-> album,
     has_number |-> TRUE, track_number |-> number, thin |-> thin]

N_Comma == Record("n1", T_SongA, <<<<"A", "l", ",", " ", "J", "r">>>>, L_Demo, 1, FALSE)
N_Duo == Record("n2", T_SongB, <<A_Ann, A_Bob>>, L_Demo, 2, FALSE)
N_Anon == Record("n3", T_Intro, <<>>, <<>>, 3, FALSE)
N_Thin == Record("n4", T_SongA, <<A_Ann>>, L_Demo, 4, TRUE)

NamePool == {N_Comma, N_Duo, N_Anon, N_Thin}

\* records that lack the artist or the album only, and one whose artist has no name
AnonPool ==
    {Record("n5", T_SongB, <<>>, L_Demo, 5, FALSE),
     Record("n6", T_SongB, <<A_Bob>>, <<>>, 6, FALSE),
     Record("n7", T_Intro, <<<<>>>>, L_Demo, 7, FALSE)}

\* what sp.track(id) holds for a record: the full track object
FullTrack(e) == [e EXCEPT !.thin = FALSE]

SeqsUpTo(S, n) == UNION {[1..k -> S] : k \in 0..n}

\* the track listings of up to n records: a listing names each track once
Listings(S, n) ==
    {s \in SeqsUpTo(S, n) : \A a, b \in DOMAIN s : a # b => s[a] # s[b]}

Min(a, b) == IF a < b THEN a ELSE b

\* the listing is served in pages of `limit` entries; an empty listing is one empty page
NumPages(list, lim) == IF list = <<>> THEN 1 ELSE (Len(list) + lim - 1) \div lim

Page(list, lim, k) == SubSeq(list, (k - 1) * lim + 1, Min(k * lim, Len(list)))

\* results['next'] of page k
HasNext(list, lim, k) == k < NumPages(list, lim)

\* a single-page fetch: the next-page cursor is never followed
MorePages_FirstPageOnly(list, lim, k) == FALSE

\* the test of `while results['next']` with page k in `results`
MorePages(list, lim, k) == HasNext(list, lim, k)

\* the items of a page put in front of the list instead of after it
Extend_InFront(list, items) == items \o list

\* tracks_to_download.extend(items)
Extend(list, items) == list \o items

RECURSIVE SumOfPageSizes(_, _, _)
\* the sizes of pages 1..k added up
SumOfPageSizes(list, lim, k) ==
    IF k = 0 THEN 0 ELSE SumOfPageSizes(list, lim, k - 1) + Len(Page(list, lim, k))

RECURSIVE PagesUpTo(_, _, _)
\* the entries of pages 1..k in pagination order
PagesUpTo(list, lim, k) ==
    IF k = 0 THEN <<>> ELSE PagesUpTo(list, lim, k - 1) \o Page(list, lim, k)

-----------------------------------------------------------------------------
(* What process_spotify_link derives from one item *)

UnknownArtist == <<"U", "n", "k", "n", "o", "w", "n", " ", "A", "r", "t", "i", "s", "t">>
UnknownAlbum == <<"U", "n", "k", "n", "o", "w", "n", " ", "A", "l", "b", "u", "m">>

track_name(item) == item.name

\* the joined names are used as they are, also when there are none
artist_names_NoDefault(item) == JoinNames(SelectSeq(item.artists, LAMBDA a : a # <<>>))

artist_names(item) ==
    LET joined == JoinNames(SelectSeq(item.artists, LAMBDA a : a # <<>>))
    IN  IF joined = <<>> THEN UnknownArtist ELSE joined

album_name(item) ==
    IF ~item.thin /\ item.album_name # <<>> THEN item.album_name ELSE UnknownAlbum

\* track_item.get('track_number', 1)
track_number(item) == IF item.has_number THEN item.track_number ELSE 1

s_artist(item) == sanitize_filename(SplitFirst(artist_names(item), ","))

s_album(item) == sanitize_filename(album_name(item))

search_query(item) ==
    track_name(item) \o <<" ">> \o artist_names(item) \o <<" ", "a", "u", "d", "i", "o">>

\* the filename stem passed to download_youtube_track_for_spotify
track_filename_stem(item) ==
    zfill(StrOfNat(track_number(item)), 2) \o <<" ", "-", " ">>
        \o sanitize_filename(track_name(item))

\* os.path.join(base, "Music", artist, album), below base
specific_song_dir(artist, album) == PathJoin(<<"Music", Str(artist), Str(album)>>)

\* os.path.join(specific_song_dir, stem + ".mp3")
final_path(artist, album, stem) ==
    specific_song_dir(artist, album) \o <<Str(stem \o <<".", "m", "p", "3">>)>>

\* the output file of an item
item_path(item) == final_path(s_artist(item), s_album(item), track_filename_stem(item))

-----------------------------------------------------------------------------
(* The file system and the external tools *)

\* open(path, 'w') followed by write: the file holds `content` afterwards
WriteFile(fs, path, content) ==
    [p \in DOMAIN fs \cup {path} |-> IF p = path THEN content ELSE fs[p]]

\* what the fetch/transcode tool leaves at its output path: it keeps a file that exists
ToolOutput(fs, path, content) == IF path \in DOMAIN fs THEN fs ELSE WriteFile(fs, path, content)

\* the first result of `ytsearch1:<query>`
FirstResult(query) == "yt:" \o Str(query)

\* returncode of the locator search, and whether its stdout holds a result
LocatorResults == [rc : {0, 1}, found : BOOLEAN]

\* no search result is held
NoResult == [rc |-> -1, found |-> FALSE]

\* only the exit code is tested, not whether a result was printed
LocatorHit_ExitCodeOnly(r) == r.rc = 0

\* yt_url_result.returncode == 0 and yt_url_result.stdout.strip()
LocatorHit(r) == r.rc = 0 /\ r.found

\* outcomes of running the fetch/transcode tool
ToolResults == {"not_installed", "crashed", "ok_path_exists", "ok_path_missing",
                "ok_no_path", "error_403", "error_other"}

-----------------------------------------------------------------------------
(* Initial states *)

None == <<>>

UrlKinds == {"youtube", "spotify_track", "spotify_album", "spotify_other", "other"}

\* the names bound at module level when the `if __name__ == "__main__":` block runs:
\* the definitions that precede it in the file
GlobalsAtMain == {"check_ffmpeg", "get_download_path", "get_video_info", "download_audio"}

\* the records the catalog provider holds behind a reference of each kind
Catalogs(url) ==
    IF url = "spotify_album" THEN Listings(Pool, MaxTracks)
    ELSE IF url = "spotify_track" THEN {<<FullTrack(e)>> : e \in {x \in Pool : x.id # ""}}
    ELSE {<<>>}

Init ==
    /\ entry \in {"cli", "call"}
    /\ pc = (IF entry = "cli" THEN "main" ELSE "process_spotify_link")
    /\ args \in [url : UrlKinds, simulate : BOOLEAN]
    /\ creds \in BOOLEAN
    /\ catalog \in Catalogs(args.url)
    /\ limit \in (IF args.url = "spotify_album" THEN 1..MaxPageSize ELSE {1})
    /\ results = 0
    /\ tracks_to_download = <<>>
    /\ i = 0
    /\ track_item = None
    /\ yt_url_result = NoResult
    /\ youtube_video_url = ""
    /\ dirs = {}
    /\ files = <<>>
    /\ calls = <<>>
    /\ log = <<>>
    /\ ret = None
    /\ diag = ""
    /\ result = None
    /\ player = None
    /\ play_pause_button = ""
    /\ focus = ""
    /\ db = None

\* the same start with the catalog holding the records of NamePool
NameCatalogs(url) ==
    IF url = "spotify_album" THEN Listings(NamePool, MaxTracks)
    ELSE IF url = "spotify_track" THEN {<<FullTrack(e)>> : e \in NamePool}
    ELSE {<<>>}

InitNames ==
    /\ entry \in {"cli", "call"}
    /\ pc = (IF entry = "cli" THEN "main" ELSE "process_spotify_link")
    /\ args \in [url : UrlKinds, simulate : BOOLEAN]
    /\ creds \in BOOLEAN
    /\ catalog \in NameCatalogs(args.url)
    /\ limit \in (IF args.url = "spotify_album" THEN 1..MaxPageSize ELSE {1})
    /\ results = 0
    /\ tracks_to_download = <<>>
    /\ i = 0
    /\ track_item = None
    /\ yt_url_result = NoResult
    /\ youtube_video_url = ""
    /\ dirs = {}
    /\ files = <<>>
    /\ calls = <<>>
    /\ log = <<>>
    /\ ret = None
    /\ diag = ""
    /\ result = None
    /\ player = None
    /\ play_pause_button = ""
    /\ focus = ""
    /\ db = None

-----------------------------------------------------------------------------
(* Console output and call history *)

Line(item, msg) == [item |-> item, msg |-> msg]

Call(op, item, rc, out) == [op |-> op, item |-> item, rc |-> rc, out |-> out]

\* the function ends without a word
Return_Silent(msg) ==
    /\ pc' = "returned"
    /\ UNCHANGED log

\* `return` from process_spotify_link with one batch-level line printed
Return(msg) ==
    /\ pc' = "returned"
    /\ log' = Append(log, Line(0, msg))

\* an exception raised inside the try block: caught by the handlers that
\* follow the loop, so the function prints the error and ends
Caught(msg) == Return(msg)

-----------------------------------------------------------------------------
(* The command-line block *)

MainBlock ==
    /\ pc = "main"
    /\ IF args.url = "other" THEN pc' = "exit"
       ELSE IF args.url = "youtube" THEN pc' = "download_audio"
       ELSE IF ~creds THEN pc' = "end"
       ELSE IF "process_spotify_link" \in GlobalsAtMain THEN pc' = "process_spotify_link"
       ELSE pc' = "NameError"
    /\ UNCHANGED <<entry, player, play_pause_button, focus, db, result, args, creds, catalog, limit, results, tracks_to_download, i,
                   track_item, yt_url_result, youtube_video_url, dirs, files, calls, log, ret, diag>>

\* the file the tool names for a direct media reference: Music/<video title>.mp3
VideoPath == <<"Music", "video.mp3">>

\* outcomes of the `--get-filename` run of get_video_info
InfoResults == {"not_installed", "failed", "ok"}

\* download_audio(args.url, output_directory, simulate_only) for a direct media reference
DownloadAudio ==
    /\ pc = "download_audio"
    /\ \E mk \in BOOLEAN :
         IF ~mk
         THEN /\ pc' = "OSError"
              /\ UNCHANGED <<dirs, files, calls, ret, diag>>
         ELSE /\ pc' = "end"
              /\ IF args.simulate
                 THEN \E r \in InfoResults :
                        IF r = "ok"
                        THEN /\ calls' = calls \o <<Call("yt-dlp --get-filename", 1, 0, "path"),
                                                    Call("yt-dlp --print json", 1, 0, "")>>
                             /\ dirs' = dirs \cup {<<"Music">>}
                             /\ files' = WriteFile(files, VideoPath, [kind |-> "placeholder",
                                             title |-> "video", url |-> "direct"])
                             /\ ret' = VideoPath
                             /\ diag' = "created"
                        ELSE /\ calls' = Append(calls, Call("yt-dlp --get-filename", 1, 1, r))
                             /\ dirs' = dirs \cup {<<"Music">>}
                             /\ ret' = None
                             /\ diag' = "no_info"
                             /\ UNCHANGED files
                 ELSE \E t \in ToolResults :
                        /\ calls' = Append(calls, Call("yt-dlp", 1,
                                       IF t \in {"ok_path_exists", "ok_path_missing", "ok_no_path"}
                                       THEN 0 ELSE 1, t))
                        /\ dirs' = dirs \cup {<<"Music">>}
                        /\ files' = IF t = "ok_path_exists"
                                    THEN ToolOutput(files, VideoPath,
                                             [kind |-> "audio", title |-> "video", url |-> "direct"])
                                    ELSE files
                        /\ ret' = IF t = "ok_path_exists" THEN VideoPath ELSE None
                        /\ diag' = t
    /\ UNCHANGED <<entry, player, play_pause_button, focus, db, result, args, creds, catalog, limit, results, tracks_to_download, i,
                   track_item, yt_url_result, youtube_video_url, log>>

-----------------------------------------------------------------------------
(* process_spotify_link: credentials and metadata resolution *)

\* outcomes of one request to the catalog provider
ProviderResults == {"ok", "none", "raise"}

CheckCredentials ==
    /\ pc = "process_spotify_link"
    /\ IF ~creds THEN Return("no_credentials")
       ELSE /\ pc' = "resolve"
            /\ UNCHANGED log
    /\ UNCHANGED <<entry, player, play_pause_button, focus, db, result, args, creds, catalog, limit, results, tracks_to_download, i,
                   track_item, yt_url_result, youtube_video_url, dirs, files, calls, ret, diag>>

\* "/track/" in spotify_url: sp.track(spotify_url)
ResolveTrack ==
    /\ pc = "resolve"
    /\ args.url = "spotify_track"
    /\ \E r \in ProviderResults :
         /\ calls' = Append(calls, Call("sp.track", 0, 0, r))
         /\ IF r = "raise" THEN Caught("spotify_api_error") /\ UNCHANGED <<tracks_to_download, i>>
            ELSE IF r = "none" THEN Return("no_metadata") /\ UNCHANGED <<tracks_to_download, i>>
            ELSE /\ tracks_to_download' = <<catalog[1]>>
                 /\ pc' = "item"
                 /\ i' = 1
                 /\ UNCHANGED log
    /\ UNCHANGED <<entry, player, play_pause_button, focus, db, result, args, creds, catalog, limit, results, track_item,
                   yt_url_result, youtube_video_url, dirs, files, ret, diag>>

\* "/album/" in spotify_url: sp.album(spotify_url), then the first page of sp.album_tracks
ResolveAlbum ==
    /\ pc = "resolve"
    /\ args.url = "spotify_album"
    /\ \E r \in ProviderResults :
         IF r = "raise"
         THEN /\ calls' = Append(calls, Call("sp.album", 0, 0, r))
              /\ Caught("spotify_api_error")
              /\ UNCHANGED <<results, tracks_to_download>>
         ELSE IF r = "none"
         THEN /\ calls' = Append(calls, Call("sp.album", 0, 0, r))
              /\ Return("no_metadata")
              /\ UNCHANGED <<results, tracks_to_download>>
         ELSE \E q \in ProviderResults :
                /\ calls' = calls \o <<Call("sp.album", 0, 0, r), Call("sp.album_tracks", 0, 0, q)>>
                /\ IF q = "raise"
                   THEN Caught("spotify_api_error") /\ UNCHANGED <<results, tracks_to_download>>
                   ELSE IF q = "none"
                   THEN Return("no_tracks") /\ UNCHANGED <<results, tracks_to_download>>
                   ELSE /\ results' = 1
                        /\ tracks_to_download' = Extend(tracks_to_download, Page(catalog, limit, 1))
                        /\ pc' = "paginate"
                        /\ UNCHANGED log
    /\ UNCHANGED <<entry, player, play_pause_button, focus, db, result, args, creds, catalog, limit, i, track_item,
                   yt_url_result, youtube_video_url, dirs, files, ret, diag>>

\* neither "/track/" nor "/album/" in spotify_url
ResolveOther ==
    /\ pc = "resolve"
    /\ args.url \notin {"spotify_track", "spotify_album"}
    /\ Return("unsupported_url")
    /\ UNCHANGED <<entry, player, play_pause_button, focus, db, result, args, creds, catalog, limit, results, tracks_to_download, i,
                   track_item, yt_url_result, youtube_video_url, dirs, files, calls, ret, diag>>

\* one turn of `while results['next']`: results = sp.next(results)
NextPage ==
    /\ pc = "paginate"
    /\ MorePages(catalog, limit, results)
    /\ \E r \in ProviderResults :
         /\ calls' = Append(calls, Call("sp.next", 0, results + 1, r))
         /\ IF r = "raise"
            THEN Caught("spotify_api_error") /\ UNCHANGED <<results, tracks_to_download>>
            ELSE IF r = "none"
            \* results is None: the loop test results['next'] raises TypeError
            THEN Caught("unexpected_error") /\ UNCHANGED <<results, tracks_to_download>>
            ELSE /\ results' = results + 1
                 /\ tracks_to_download' =
                        IF Page(catalog, limit, results + 1) # <<>>
                        THEN Extend(tracks_to_download, Page(catalog, limit, results + 1))
                        ELSE tracks_to_download
                 /\ UNCHANGED <<pc, log>>
    /\ UNCHANGED <<entry, player, play_pause_button, focus, db, result, args, creds, catalog, limit, i, track_item,
                   yt_url_result, youtube_video_url, dirs, files, ret, diag>>

\* the loop ends; `if not tracks_to_download: return`
EndPagination ==
    /\ pc = "paginate"
    /\ ~MorePages(catalog, limit, results)
    /\ IF tracks_to_download = <<>>
       THEN Return("no_tracks") /\ UNCHANGED i
       ELSE /\ pc' = "item"
            /\ i' = 1
            /\ UNCHANGED log
    /\ UNCHANGED <<entry, player, play_pause_button, focus, db, result, args, creds, catalog, limit, results, tracks_to_download,
                   track_item, yt_url_result, youtube_video_url, dirs, files, calls, ret, diag>>

-----------------------------------------------------------------------------
(* process_spotify_link: the loop over tracks_to_download *)

\* the loop steps back to the item before whenever there is one
Continue_Back ==
    /\ pc' = "item"
    /\ i' = (IF i > 1 THEN i - 1 ELSE i + 1)
    /\ yt_url_result' = NoResult
    /\ youtube_video_url' = ""

\* the loop takes the same item again
Continue_Retry ==
    /\ pc' = "item"
    /\ i' = i
    /\ yt_url_result' = NoResult
    /\ youtube_video_url' = ""

\* `continue`: on to the next item; the locals of the item are dead
Continue ==
    /\ pc' = "item"
    /\ i' = i + 1
    /\ yt_url_result' = NoResult
    /\ youtube_video_url' = ""

\* every entry is taken for a full one
IsThin_Never(item) == FALSE

\* 'album' not in track_item
IsThin(item) == item.thin

\* the loop is exhausted: the function ends
LoopEnd ==
    /\ pc = "item"
    /\ i > Len(tracks_to_download)
    /\ pc' = "returned"
    /\ UNCHANGED <<entry, player, play_pause_button, focus, db, result, args, creds, catalog, limit, results, tracks_to_download, i,
                   track_item, yt_url_result, youtube_video_url, dirs, files, calls, log,
                   ret, diag>>

\* an item that carries its album: used as it is
ItemFull ==
    /\ pc = "item"
    /\ i <= Len(tracks_to_download)
    /\ ~IsThin(tracks_to_download[i])
    /\ track_item' = tracks_to_download[i]
    /\ pc' = "locate"
    /\ UNCHANGED <<entry, player, play_pause_button, focus, db, result, args, creds, catalog, limit, results, tracks_to_download, i,
                   yt_url_result, youtube_video_url, dirs, files, calls, log, ret, diag>>

\* a thin item: sp.track(track_item['id']) when it has an id, skipped otherwise
ItemThin ==
    /\ pc = "item"
    /\ i <= Len(tracks_to_download)
    /\ IsThin(tracks_to_download[i])
    /\ IF tracks_to_download[i].id = ""
       THEN /\ log' = Append(log, Line(i, "missing_id"))
            /\ Continue
            /\ UNCHANGED <<track_item, calls>>
       ELSE \E r \in ProviderResults :
              /\ calls' = Append(calls, Call("sp.track", i, 0, r))
              /\ IF r = "raise"
                 THEN /\ Caught("spotify_api_error")
                      /\ UNCHANGED <<track_item, i, yt_url_result, youtube_video_url>>
                 ELSE IF r = "none"
                 THEN /\ log' = Append(log, Line(i, "no_full_details"))
                      /\ Continue
                      /\ UNCHANGED track_item
                 ELSE /\ track_item' = FullTrack(tracks_to_download[i])
                      /\ pc' = "locate"
                      /\ UNCHANGED <<log, i, yt_url_result, youtube_video_url>>
    /\ UNCHANGED <<entry, player, play_pause_button, focus, db, result, args, creds, catalog, limit, results, tracks_to_download,
                   dirs, files, ret, diag>>

\* subprocess.run of the `ytsearch1:` command
ItemLocate ==
    /\ pc = "locate"
    /\ \/ \E r \in LocatorResults :
            /\ calls' = Append(calls, Call("ytsearch1", i, 0, ""))
            /\ IF LocatorHit(r)
               THEN /\ yt_url_result' = r
                    /\ youtube_video_url' = FirstResult(search_query(track_item))
                    /\ pc' = "fetch"
                    /\ UNCHANGED <<log, i>>
               ELSE /\ log' = Append(log, Line(i, "no_video_found"))
                    /\ Continue
       \/ \* the executable cannot be started: FileNotFoundError
          /\ calls' = Append(calls, Call("ytsearch1", i, 0, "FileNotFoundError"))
          /\ Caught("unexpected_error")
          /\ UNCHANGED <<yt_url_result, youtube_video_url, i>>
    /\ UNCHANGED <<entry, player, play_pause_button, focus, db, result, args, creds, catalog, limit, results, tracks_to_download,
                   track_item, dirs, files, ret, diag>>

\* What download_youtube_track_for_spotify does and returns.  `write_ok`: the
\* placeholder can be written; `tool`: what running the tool gives.
download_youtube_track_for_spotify(youtube_url, artist, album, stem, simulate_only, write_ok, tool) ==
    LET path == final_path(artist, album, stem)
    IN  IF simulate_only
        THEN [files |-> IF write_ok
                        THEN WriteFile(files, path, [kind |-> "placeholder",
                                 title |-> Str(stem), url |-> youtube_url])
                        ELSE files,
              ret |-> path,
              diag |-> IF write_ok THEN "created" ELSE "io_error",
              tool |-> FALSE]
        ELSE [files |-> IF tool = "ok_path_exists"
                        THEN ToolOutput(files, path, [kind |-> "audio",
                                 title |-> Str(stem), url |-> youtube_url])
                        ELSE files,
              ret |-> IF tool = "ok_path_exists" THEN path ELSE None,
              diag |-> tool,
              tool |-> TRUE]

\* os.makedirs of the item's directory, then the fetch step
ItemFetch ==
    /\ pc = "fetch"
    /\ \/ \* os.makedirs raises OSError
          /\ Caught("unexpected_error")
          /\ UNCHANGED <<dirs, files, calls, ret, diag>>
       \/ \E write_ok \in BOOLEAN, tool \in ToolResults :
            LET d == download_youtube_track_for_spotify(youtube_video_url,
                         s_artist(track_item), s_album(track_item),
                         track_filename_stem(track_item), args.simulate, write_ok, tool)
            IN  /\ args.simulate => tool = "ok_path_exists"
                /\ ~args.simulate => write_ok
                /\ dirs' = dirs \cup {specific_song_dir(s_artist(track_item), s_album(track_item))}
                /\ files' = d.files
                /\ ret' = d.ret
                /\ diag' = d.diag
                /\ calls' = calls \o <<Call("download_youtube_track_for_spotify", i, 0, "")>>
                              \o (IF d.tool THEN <<Call("yt-dlp", i, 0, "")>> ELSE <<>>)
                /\ log' = Append(log, Line(i, "fetch_step_ran"))
                /\ pc' = "fetched"
    /\ UNCHANGED <<entry, player, play_pause_button, focus, db, result, args, creds, catalog, limit, results, tracks_to_download, i,
                   track_item, yt_url_result, youtube_video_url>>

\* the value returned by the fetch step is dropped; on to the next item
ItemNext ==
    /\ pc = "fetched"
    /\ Continue
    /\ ret' = None
    /\ diag' = ""
    /\ UNCHANGED <<entry, player, play_pause_button, focus, db, result, args, creds, catalog, limit, results, tracks_to_download,
                   track_item, dirs, files, calls, log>>

-----------------------------------------------------------------------------

Next ==
    \/ MainBlock
    \/ DownloadAudio
    \/ CheckCredentials
    \/ ResolveTrack
    \/ ResolveAlbum
    \/ ResolveOther
    \/ NextPage
    \/ EndPagination
    \/ LoopEnd
    \/ ItemFull
    \/ ItemThin
    \/ ItemLocate
    \/ ItemFetch
    \/ ItemNext

Spec == Init /\ [][Next]_vars

\* the same program over the records of NamePool
SpecNames == InitNames /\ [][Next]_vars

-----------------------------------------------------------------------------
(* download_youtube_track_for_spotify in real mode: what it makes of the    *)
(* result of the tool run.  stdout and stderr are character sequences.      *)

\* longest stdout of the tool that is looked at
MaxOut == 4

RECURSIVE Split(_, _)
\* str.split(sep) for a one-character sep
Split(s, sep) ==
    LET first == SplitFirst(s, sep)
    IN  IF Len(first) = Len(s) THEN <<first>>
        ELSE <<first>> \o Split(SubSeq(s, Len(first) + 2, Len(s)), sep)

\* sub in s
Contains(s, sub) ==
    \E k \in 0..(Len(s) - Len(sub)) : SubSeq(s, k + 1, k + Len(sub)) = sub

RECURSIVE LastNonBlank(_, _)
\* for line in lines: if line.strip(): final_filepath = line.strip()
LastNonBlank(lines, final_filepath) ==
    IF lines = <<>> THEN final_filepath
    ELSE LastNonBlank(Tail(lines),
             IF Strip(Head(lines)) # <<>> THEN Strip(Head(lines)) ELSE final_filepath)

\* the first printed line is taken instead of the last
final_filepath_FirstLine(stdout) ==
    LET printed == SelectSeq(Split(Strip(stdout), "\n"), LAMBDA l : Strip(l) # <<>>)
    IN  IF printed = <<>> THEN None ELSE Strip(printed[1])

\* final_filepath after the loop over result.stdout.strip().split('\n')
final_filepath(stdout) == LastNonBlank(Split(Strip(stdout), "\n"), None)

HTTP403 == <<"H", "T", "T", "P", " ", "E", "r", "r", "o", "r", " ", "4", "0", "3">>

\* what the tool may print on stderr
Stderrs == {<<>>, HTTP403, <<"E", ":", " ">> \o HTTP403 \o <<":", " ", "F">>,
            <<"H", "T", "T", "P", " ", "E", "r", "r", "o", "r", " ", "4", "0", "4">>}

\* what the tool may print on stdout: paths "a", "b", blanks and line breaks
Stdouts == SeqsUpTo({"\n", " ", "a", "b"}, MaxOut)

\* what subprocess.run may give: a completed process, or an exception
Results ==
    [raised : {""}, returncode : {0, 1}, stdout : Stdouts, stderr : Stderrs]
        \cup [raised : {"FileNotFoundError", "Exception"}, returncode : {0},
              stdout : {<<>>}, stderr : {<<>>}]

\* "HTTP Error 403" in result.stderr
Blocked(stderr) == Contains(stderr, HTTP403)

\* the branch of the real-mode code a result leads to; disk: the paths that exist
ToolOutcome(r, disk) ==
    IF r.raised = "FileNotFoundError" THEN "not_installed"
    ELSE IF r.raised # "" THEN "crashed"
    ELSE IF r.returncode = 0
    THEN IF final_filepath(r.stdout) # None /\ final_filepath(r.stdout) \in disk
         THEN "ok_path_exists"
         ELSE IF final_filepath(r.stdout) # None THEN "ok_path_missing"
         ELSE "ok_no_path"
    ELSE IF Blocked(r.stderr) THEN "error_403"
    ELSE "error_other"

\* the value the real-mode code returns
ToolReturn(r, disk) ==
    IF ToolOutcome(r, disk) = "ok_path_exists" THEN final_filepath(r.stdout) ELSE None

InitFetch ==
    /\ entry = "call"
    /\ pc = "download_youtube_track_for_spotify"
    /\ args = [url |-> "youtube", simulate |-> FALSE]
    /\ creds = TRUE
    /\ catalog = <<>>
    /\ limit = 1
    /\ results = 0
    /\ tracks_to_download = <<>>
    /\ i = 0
    /\ track_item = None
    /\ yt_url_result = NoResult
    /\ youtube_video_url = ""
    /\ dirs = {}
    /\ files \in {[p \in d |-> [kind |-> "audio"]] : d \in SUBSET {<<"a">>, <<"b">>}}
    /\ calls = <<>>
    /\ log = <<>>
    /\ ret = None
    /\ diag = ""
    /\ result = None
    /\ player = None
    /\ play_pause_button = ""
    /\ focus = ""
    /\ db = None

\* subprocess.run(yt_dlp_command, capture_output=True, ...)
RunTool ==
    /\ pc = "download_youtube_track_for_spotify"
    /\ result' \in Results
    /\ pc' = "ran"
    /\ UNCHANGED <<entry, player, play_pause_button, focus, db, args, creds, catalog, limit, results, tracks_to_download, i,
                   track_item, yt_url_result, youtube_video_url, dirs, files, calls, log,
                   ret, diag>>

\* the branches on result.returncode and the except handlers
InterpretResult ==
    /\ pc = "ran"
    /\ ret' = ToolReturn(result, DOMAIN files)
    /\ diag' = ToolOutcome(result, DOMAIN files)
    /\ pc' = "fetch_returned"
    /\ UNCHANGED <<entry, player, play_pause_button, focus, db, result, args, creds, catalog, limit, results, tracks_to_download, i,
                   track_item, yt_url_result, youtube_video_url, dirs, files, calls, log>>

NextFetch ==
    \/ RunTool
    \/ InterpretResult

SpecFetch == InitFetch /\ [][NextFetch]_vars

-----------------------------------------------------------------------------
(* sanitize_filename on its own: applied to a name, then to its own result *)

\* longest free part of a name that is tried
MaxTail == 2

\* c * n
Repeat(c, n) == [k \in 1..n |-> c]

\* the characters sanitize_filename replaces
Problematic == {"/", "\\", ":", "*", "?", "\"", "<", ">", "|"}

\* short names over the replaced characters, white space and a letter
ShortNames == SeqsUpTo(Problematic \cup {" ", "a"}, MaxTail)

\* names around the length limit: a head, a run of 147 to 150 letters, a tail
LongNames ==
    {head \o Repeat("x", n) \o tail :
        head \in {<<>>, <<":">>, <<" ">>},
        n \in (MaxNameLen - 3)..MaxNameLen,
        tail \in SeqsUpTo({":", "?", " ", "a"}, MaxTail)}

InitSanitize ==
    /\ entry = "call"
    /\ pc = "sanitize_filename"
    /\ args \in [name : ShortNames \cup LongNames]
    /\ creds = TRUE
    /\ catalog = <<>>
    /\ limit = 1
    /\ results = 0
    /\ tracks_to_download = <<>>
    /\ i = 0
    /\ track_item = None
    /\ yt_url_result = NoResult
    /\ youtube_video_url = ""
    /\ dirs = {}
    /\ files = <<>>
    /\ calls = <<>>
    /\ log = <<>>
    /\ ret = None
    /\ diag = ""
    /\ result = None
    /\ player = None
    /\ play_pause_button = ""
    /\ focus = ""
    /\ db = None

\* sanitize_filename(name)
Sanitize ==
    /\ pc = "sanitize_filename"
    /\ ret' = sanitize_filename(args.name)
    /\ calls' = Append(calls, [op |-> "sanitize_filename", name |-> args.name,
                               value |-> sanitize_filename(args.name)])
    /\ pc' = "sanitized"
    /\ UNCHANGED <<entry, player, play_pause_button, focus, db, result, args, creds, catalog, limit, results, tracks_to_download, i,
                   track_item, yt_url_result, youtube_video_url, dirs, files, log, diag>>

\* sanitize_filename applied to the name it returned
SanitizeAgain ==
    /\ pc = "sanitized"
    /\ args' = [name |-> ret]
    /\ ret' = sanitize_filename(ret)
    /\ calls' = Append(calls, [op |-> "sanitize_filename", name |-> ret,
                               value |-> sanitize_filename(ret)])
    /\ pc' = "resanitized"
    /\ UNCHANGED <<entry, player, play_pause_button, focus, db, result, creds, catalog, limit, results, tracks_to_download, i,
                   track_item, yt_url_result, youtube_video_url, dirs, files, log, diag>>

NextSanitize ==
    \/ Sanitize
    \/ SanitizeAgain

SpecSanitize == InitSanitize /\ [][NextSanitize]_vars

-----------------------------------------------------------------------------
(* The directory of an item: made once by process_spotify_link and once     *)
(* more by download_youtube_track_for_spotify.                              *)

\* os.path.join(base_output_path, "Music", s_artist, s_album), below base
track_specific_music_dir(artist, album) == PathJoin(<<"Music", Str(artist), Str(album)>>)

\* a path and the directories above it
Prefixes(path) == {SubSeq(path, 1, k) : k \in 1..Len(path)}

\* os.makedirs(path) without exist_ok: a directory that exists is an error
makedirs_Strict(ds, fs, path, allowed) ==
    IF path \in ds \/ \E p \in Prefixes(path) : p \in DOMAIN fs
    THEN [dirs |-> ds, raised |-> "FileExistsError", created |-> FALSE]
    ELSE IF ~allowed THEN [dirs |-> ds, raised |-> "OSError", created |-> FALSE]
    ELSE [dirs |-> ds \cup Prefixes(path), raised |-> "", created |-> TRUE]

\* os.makedirs(path, exist_ok=True); allowed: the system lets the directory be made
makedirs(ds, fs, path, allowed) ==
    IF path \in ds THEN [dirs |-> ds, raised |-> "", created |-> FALSE]
    ELSE IF \E p \in Prefixes(path) : p \in DOMAIN fs
    THEN [dirs |-> ds, raised |-> "FileExistsError", created |-> FALSE]
    ELSE IF ~allowed THEN [dirs |-> ds, raised |-> "OSError", created |-> FALSE]
    ELSE [dirs |-> ds \cup Prefixes(path), raised |-> "", created |-> TRUE]

\* what may be on disk before the run: nothing, Music, the item's directory,
\* or a file where a directory of the item is to be
DisksBefore(item) ==
    LET dir == track_specific_music_dir(s_artist(item), s_album(item))
    IN  {[dirs |-> {}, files |-> <<>>],
         [dirs |-> {<<"Music">>}, files |-> <<>>],
         [dirs |-> Prefixes(dir), files |-> <<>>],
         [dirs |-> {<<"Music">>}, files |-> [p \in {dir} |-> [kind |-> "other"]]],
         [dirs |-> {<<"Music">>}, files |-> [p \in {SubSeq(dir, 1, 2)} |-> [kind |-> "other"]]]}

InitDirs ==
    /\ entry = "call"
    /\ pc = "makedirs"
    /\ args \in [url : {"spotify_track"}, simulate : BOOLEAN]
    /\ creds = TRUE
    /\ catalog = <<>>
    /\ limit = 1
    /\ results = 0
    /\ track_item \in {FullTrack(e) : e \in Pool \cup NamePool \cup AnonPool}
    /\ tracks_to_download = <<track_item>>
    /\ i = 1
    /\ yt_url_result = [rc |-> 0, found |-> TRUE]
    /\ youtube_video_url = FirstResult(search_query(track_item))
    /\ \E d \in DisksBefore(track_item) : dirs = d.dirs /\ files = d.files
    /\ calls = <<>>
    /\ log = <<>>
    /\ ret = None
    /\ diag = ""
    /\ result = None
    /\ player = None
    /\ play_pause_button = ""
    /\ focus = ""
    /\ db = None

\* os.makedirs(track_specific_music_dir, exist_ok=True) in process_spotify_link
MakeTrackDir ==
    /\ pc = "makedirs"
    /\ \E allowed \in BOOLEAN :
         LET path == track_specific_music_dir(s_artist(track_item), s_album(track_item))
             m == makedirs(dirs, files, path, allowed)
         IN  /\ dirs' = m.dirs
             /\ calls' = Append(calls, [op |-> "os.makedirs", item |-> i, path |-> path,
                                        raised |-> m.raised, created |-> m.created])
             /\ ret' = path
             /\ IF m.raised = "" THEN pc' = "download_youtube_track_for_spotify" /\ UNCHANGED log
                ELSE Caught("unexpected_error")
    /\ UNCHANGED <<entry, player, play_pause_button, focus, db, result, args, creds, catalog, limit, results, tracks_to_download, i,
                   track_item, yt_url_result, youtube_video_url, files, diag>>

\* os.makedirs(specific_song_dir, exist_ok=True) in download_youtube_track_for_spotify
MakeSongDir ==
    /\ pc = "download_youtube_track_for_spotify"
    /\ \E allowed \in BOOLEAN :
         LET path == specific_song_dir(s_artist(track_item), s_album(track_item))
             m == makedirs(dirs, files, path, allowed)
         IN  /\ dirs' = m.dirs
             /\ calls' = Append(calls, [op |-> "os.makedirs", item |-> i, path |-> path,
                                        raised |-> m.raised, created |-> m.created])
             /\ ret' = path
             /\ IF m.raised = "" THEN pc' = "made" /\ UNCHANGED log
                ELSE Caught("unexpected_error")
    /\ UNCHANGED <<entry, player, play_pause_button, focus, db, result, args, creds, catalog, limit, results, tracks_to_download, i,
                   track_item, yt_url_result, youtube_video_url, files, diag>>

NextDirs ==
    \/ MakeTrackDir
    \/ MakeSongDir

SpecDirs == InitDirs /\ [][NextDirs]_vars

-----------------------------------------------------------------------------
(* audio_player.py: the AudioPlayer object.  `player` holds its fields and  *)
(* what pygame.mixer.music has loaded and is doing.                         *)

\* current_song_path is None
NoSong == "None"

\* the files the track list names, by iid; the last one cannot be decoded
TrackFiles == [t \in {"1", "2", "3"} |-> IF t = "1" THEN "a.mp3" ELSE IF t = "2" THEN "b.mp3" ELSE "bad.mp3"]

\* AudioPlayer.__init__
NewPlayer ==
    [current_song_path |-> NoSong, playing |-> FALSE, paused |-> FALSE,
     loaded |-> NoSong, busy |-> "stopped", volume |-> 10]

\* load_song: the player after the call and the value returned.  A load that
\* succeeds ends the music that was playing; keeps_old: a load that fails
\* leaves the music that was loaded as it was.
load_song(p, song_path, keeps_old) ==
    IF song_path \in {"a.mp3", "b.mp3"}    \* the files pygame.mixer.music.load accepts
    THEN [player |-> [p EXCEPT !.current_song_path = song_path, !.loaded = song_path,
                               !.busy = "stopped"],
          ret |-> "True"]
    ELSE [player |-> IF keeps_old THEN [p EXCEPT !.current_song_path = NoSong]
                     ELSE [p EXCEPT !.current_song_path = NoSong, !.loaded = NoSong,
                                    !.busy = "stopped"],
          ret |-> "False"]

play_song(p) ==
    IF p.current_song_path = NoSong THEN p
    ELSE IF ~p.playing \/ p.paused
    THEN [p EXCEPT !.playing = TRUE, !.paused = FALSE, !.busy = "playing"]
    ELSE p

pause_song(p) ==
    IF p.playing /\ ~p.paused
    THEN [p EXCEPT !.paused = TRUE, !.busy = IF p.busy = "playing" THEN "paused" ELSE p.busy]
    ELSE p

unpause_song(p) ==
    IF p.playing /\ p.paused
    THEN [p EXCEPT !.paused = FALSE, !.busy = IF p.busy = "paused" THEN "playing" ELSE p.busy]
    ELSE p

stop_song(p) ==
    [p EXCEPT !.playing = FALSE, !.paused = FALSE, !.current_song_path = NoSong,
              !.busy = "stopped"]

\* set_volume, with levels in tenths: max(0.0, min(1.0, volume_level))
set_volume(p, volume_level) ==
    [p EXCEPT !.volume = IF volume_level < 0 THEN 0
                         ELSE IF volume_level > 10 THEN 10 ELSE volume_level]

InitAudio ==
    /\ entry = "call"
    /\ pc = "AudioPlayer"
    /\ args = [url |-> "other", simulate |-> FALSE]
    /\ creds = TRUE
    /\ catalog = <<>>
    /\ limit = 1
    /\ results = 0
    /\ tracks_to_download = <<>>
    /\ i = 0
    /\ track_item = None
    /\ yt_url_result = NoResult
    /\ youtube_video_url = ""
    /\ dirs = {}
    /\ files = <<>>
    /\ calls = <<>>
    /\ log = <<>>
    /\ ret = "None"
    /\ diag = ""
    /\ result = None
    /\ player = NewPlayer
    /\ play_pause_button = "Play"
    /\ focus = ""
    /\ db = None

\* what no method of AudioPlayer touches
AudioFrame ==
    UNCHANGED <<entry, pc, args, creds, catalog, limit, results, tracks_to_download, i,
                track_item, yt_url_result, youtube_video_url, dirs, files, calls, log,
                result, play_pause_button, focus, db>>

LoadSong ==
    /\ \E song_path \in {"a.mp3", "b.mp3", "bad.mp3"}, keeps_old \in BOOLEAN :
         /\ player' = load_song(player, song_path, keeps_old).player
         /\ ret' = load_song(player, song_path, keeps_old).ret
    /\ diag' = "load_song"
    /\ AudioFrame

PlaySong ==
    /\ player' = play_song(player)
    /\ ret' = "None"
    /\ diag' = "play_song"
    /\ AudioFrame

PauseSong ==
    /\ player' = pause_song(player)
    /\ ret' = "None"
    /\ diag' = "pause_song"
    /\ AudioFrame

UnpauseSong ==
    /\ player' = unpause_song(player)
    /\ ret' = "None"
    /\ diag' = "unpause_song"
    /\ AudioFrame

StopSong ==
    /\ player' = stop_song(player)
    /\ ret' = "None"
    /\ diag' = "stop_song"
    /\ AudioFrame

SetVolume ==
    /\ \E volume_level \in {-5, 0, 5, 10, 15} : player' = set_volume(player, volume_level)
    /\ ret' = "None"
    /\ diag' = "set_volume"
    /\ AudioFrame

\* the music that plays comes to its end; nothing in the program hears of it
SongEnds ==
    /\ player.busy = "playing"
    /\ player' = [player EXCEPT !.busy = "stopped"]
    /\ ret' = "None"
    /\ diag' = "song_ended"
    /\ AudioFrame

NextAudio ==
    \/ LoadSong
    \/ PlaySong
    \/ PauseSong
    \/ UnpauseSong
    \/ StopSong
    \/ SetVolume
    \/ SongEnds

SpecAudio == InitAudio /\ [][NextAudio]_vars

-----------------------------------------------------------------------------
(* main_player.py: the handlers of the track list and of the two buttons *)

\* on_track_double_click: the player, the button text and the value load_song gave
on_track_double_click(p, button, selected_item_iid, keeps_old) ==
    IF selected_item_iid = ""
    THEN [player |-> p, button |-> button, ret |-> "None"]
    ELSE LET l == load_song(p, TrackFiles[selected_item_iid], keeps_old)
         IN  IF l.ret = "True"
             THEN [player |-> play_song(l.player), button |-> "Pause", ret |-> "True"]
             ELSE [player |-> l.player, button |-> button, ret |-> "False"]

toggle_play_pause(p, button, selected_item_iid, keeps_old) ==
    IF p.current_song_path = NoSong
    THEN IF selected_item_iid # ""
         THEN on_track_double_click(p, button, selected_item_iid, keeps_old)
         ELSE [player |-> p, button |-> button, ret |-> "None"]
    ELSE IF p.playing /\ ~p.paused
    THEN [player |-> pause_song(p), button |-> "Play", ret |-> "None"]
    ELSE IF p.playing /\ p.paused
    THEN [player |-> unpause_song(p), button |-> "Pause", ret |-> "None"]
    ELSE [player |-> play_song(p), button |-> "Pause", ret |-> "None"]

InitPlayer ==
    /\ entry = "cli"
    /\ pc = "mainloop"
    /\ args = [url |-> "other", simulate |-> FALSE]
    /\ creds = TRUE
    /\ catalog = <<>>
    /\ limit = 1
    /\ results = 0
    /\ tracks_to_download = <<>>
    /\ i = 0
    /\ track_item = None
    /\ yt_url_result = NoResult
    /\ youtube_video_url = ""
    /\ dirs = {}
    /\ files = <<>>
    /\ calls = <<>>
    /\ log = <<>>
    /\ ret = "None"
    /\ diag = ""
    /\ result = None
    /\ player = NewPlayer
    /\ play_pause_button = "Play"
    /\ focus = ""
    /\ db = None

\* what no handler touches
GuiFrame ==
    UNCHANGED <<entry, pc, args, creds, catalog, limit, results, tracks_to_download, i,
                track_item, yt_url_result, youtube_video_url, dirs, files, calls, log,
                result, db>>

\* a click on a row of the track list
SelectTrack ==
    /\ \E t \in DOMAIN TrackFiles : focus' = t
    /\ ret' = "None"
    /\ diag' = "select"
    /\ UNCHANGED <<player, play_pause_button>>
    /\ GuiFrame

\* <Double-1> on a row: the row has the focus and on_track_double_click runs
DoubleClickTrack ==
    /\ \E t \in DOMAIN TrackFiles, keeps_old \in BOOLEAN :
         LET g == on_track_double_click(player, play_pause_button, t, keeps_old)
         IN  /\ focus' = t
             /\ player' = g.player
             /\ play_pause_button' = g.button
             /\ ret' = g.ret
    /\ diag' = "on_track_double_click"
    /\ GuiFrame

\* the Play/Pause button: command=self.toggle_play_pause
PressPlayPause ==
    /\ \E keeps_old \in BOOLEAN :
         LET g == toggle_play_pause(player, play_pause_button, focus, keeps_old)
         IN  /\ player' = g.player
             /\ play_pause_button' = g.button
             /\ ret' = g.ret
    /\ diag' = "toggle_play_pause"
    /\ UNCHANGED focus
    /\ GuiFrame

\* the Stop button: command=self.player.stop_song
PressStop ==
    /\ player' = stop_song(player)
    /\ ret' = "None"
    /\ diag' = "stop_song"
    /\ UNCHANGED <<play_pause_button, focus>>
    /\ GuiFrame

NextPlayer ==
    \/ SelectTrack
    \/ DoubleClickTrack
    \/ PressPlayPause
    \/ PressStop
    \/ SongEnds

SpecPlayer == InitPlayer /\ [][NextPlayer]_vars

-----------------------------------------------------------------------------
(* database_manager.py: the three tables and the functions over them *)

MaxPlaylists == 2    \* playlists rows ever inserted
MaxEntries == 3      \* playlist_tracks rows ever inserted

\* every function opens sqlite3.connect(DB_NAME) and runs its statements at
\* once: no PRAGMA foreign_keys = ON is issued, and the setting is off in a
\* new connection
foreign_keys == FALSE

\* create_tables: rows are kept in rowid order, with the AUTOINCREMENT counters
NewDatabase ==
    [tracks |-> <<>>, tracks_seq |-> 0,
     playlists |-> <<>>, playlists_seq |-> 0,
     playlist_tracks |-> <<>>, playlist_tracks_seq |-> 0]

Ids(rows) == {rows[k].id : k \in DOMAIN rows}

\* the row that holds the filepath is written anew, under a new id
add_track_Replace(d, filepath, title, artist, album) ==
    LET Others(t) == t.filepath # filepath
        track_id == d.tracks_seq + 1
    IN  [db |-> [d EXCEPT !.tracks = Append(SelectSeq(@, Others),
                                            [id |-> track_id, filepath |-> filepath,
                                             title |-> title, artist |-> artist,
                                             album |-> album]),
                          !.tracks_seq = track_id],
         ret |-> track_id]

\* INSERT INTO tracks, or on the UNIQUE(filepath) violation the id of the row
\* that holds the filepath; the row itself is not written
add_track(d, filepath, title, artist, album) ==
    LET same == {k \in DOMAIN d.tracks : d.tracks[k].filepath = filepath}
        track_id == d.tracks_seq + 1
    IN  IF same # {}
        THEN [db |-> d, ret |-> d.tracks[CHOOSE k \in same : TRUE].id]
        ELSE [db |-> [d EXCEPT !.tracks = Append(@, [id |-> track_id, filepath |-> filepath,
                                                     title |-> title, artist |-> artist,
                                                     album |-> album]),
                               !.tracks_seq = track_id],
              ret |-> track_id]

create_playlist(d, name) ==
    LET same == {k \in DOMAIN d.playlists : d.playlists[k].name = name}
        playlist_id == d.playlists_seq + 1
    IN  IF same # {}
        THEN [db |-> d, ret |-> d.playlists[CHOOSE k \in same : TRUE].id]
        ELSE [db |-> [d EXCEPT !.playlists = Append(@, [id |-> playlist_id, name |-> name]),
                               !.playlists_seq = playlist_id],
              ret |-> playlist_id]

\* SELECT MAX(sequence), then INSERT at 0 or at max + 1; with foreign keys
\* enforced an id without a parent row would be refused (return None, here 0)
add_track_to_playlist(d, playlist_id, track_id) ==
    LET seqs == {d.playlist_tracks[k].sequence :
                    k \in {j \in DOMAIN d.playlist_tracks :
                              d.playlist_tracks[j].playlist_id = playlist_id}}
        next_sequence == IF seqs = {} THEN 0
                         ELSE (CHOOSE m \in seqs : \A n \in seqs : n <= m) + 1
        rowid == d.playlist_tracks_seq + 1
    IN  IF foreign_keys /\ (playlist_id \notin Ids(d.playlists) \/ track_id \notin Ids(d.tracks))
        THEN [db |-> d, ret |-> 0]
        ELSE [db |-> [d EXCEPT !.playlist_tracks =
                                   Append(@, [id |-> rowid, playlist_id |-> playlist_id,
                                              track_id |-> track_id,
                                              sequence |-> next_sequence]),
                               !.playlist_tracks_seq = rowid],
              ret |-> rowid]

\* the rows in ascending sequence (rows of equal sequence in rowid order)
RECURSIVE BySequence(_)
BySequence(rows) ==
    IF rows = <<>> THEN <<>>
    ELSE LET first == CHOOSE k \in DOMAIN rows :
                         \A j \in DOMAIN rows :
                            \/ rows[k].sequence < rows[j].sequence
                            \/ rows[k].sequence = rows[j].sequence /\ k <= j
         IN  <<rows[first]>> \o
             BySequence(SubSeq(rows, 1, first - 1) \o SubSeq(rows, first + 1, Len(rows)))

\* tracks JOIN playlist_tracks ON t.id = pt.track_id WHERE pt.playlist_id = ?
\* ORDER BY pt.sequence ASC
get_tracks_in_playlist(d, playlist_id) ==
    LET InPlaylist(pt) == pt.playlist_id = playlist_id /\ pt.track_id \in Ids(d.tracks)
        joined == BySequence(SelectSeq(d.playlist_tracks, InPlaylist))
    IN  [k \in DOMAIN joined |->
            [id |-> joined[k].track_id, playlist_track_id |-> joined[k].id,
             sequence |-> joined[k].sequence]]

\* DELETE FROM playlist_tracks WHERE id = ?; True when a row went
remove_track_from_playlist(d, playlist_track_id) ==
    LET Others(pt) == pt.id # playlist_track_id
    IN  [db |-> [d EXCEPT !.playlist_tracks = SelectSeq(@, Others)],
         ret |-> IF playlist_track_id \in Ids(d.playlist_tracks) THEN "True" ELSE "False"]

\* DELETE FROM playlists WHERE id = ?; ON DELETE CASCADE acts only with
\* foreign keys enforced
delete_playlist(d, playlist_id) ==
    LET Others(p) == p.id # playlist_id
        Kept(pt) == ~foreign_keys \/ pt.playlist_id # playlist_id
    IN  [db |-> [d EXCEPT !.playlists = SelectSeq(@, Others),
                          !.playlist_tracks = SelectSeq(@, Kept)],
         ret |-> IF playlist_id \in Ids(d.playlists) THEN "True" ELSE "False"]

\* the ids a caller may pass for a playlist
PlaylistIds == 1..MaxPlaylists

\* a library of two tracks has been scanned; no playlist exists yet
InitPlaylists ==
    /\ entry = "cli"
    /\ pc = "database_manager"
    /\ args = <<>>
    /\ creds = TRUE
    /\ catalog = <<>>
    /\ limit = 1
    /\ results = 0
    /\ tracks_to_download = <<>>
    /\ i = 0
    /\ track_item = None
    /\ yt_url_result = NoResult
    /\ youtube_video_url = ""
    /\ dirs = {}
    /\ files = <<>>
    /\ calls = <<>>
    /\ log = <<>>
    /\ ret = "None"
    /\ diag = ""
    /\ result = None
    /\ player = None
    /\ play_pause_button = ""
    /\ focus = ""
    /\ db = add_track(add_track(NewDatabase, "a.mp3", "A", "Unknown Artist", "Unknown Album").db,
                      "b.mp3", "B", "Unknown Artist", "Unknown Album").db

\* what no database function touches
DbFrame ==
    UNCHANGED <<entry, pc, creds, catalog, limit, results, tracks_to_download, i,
                track_item, yt_url_result, youtube_video_url, dirs, files, calls, log,
                result, player, play_pause_button, focus>>

CreatePlaylist ==
    /\ \E name \in {"mix", "fav"} :
         LET r == create_playlist(db, name)
         IN  /\ r.db.playlists_seq <= MaxPlaylists
             /\ db' = r.db
             /\ ret' = r.ret
             /\ args' = <<name>>
    /\ diag' = "create_playlist"
    /\ DbFrame

AddTrackToPlaylist ==
    /\ db.playlist_tracks_seq < MaxEntries
    /\ \E playlist_id \in PlaylistIds, track_id \in 1..(db.tracks_seq + 1) :
         LET r == add_track_to_playlist(db, playlist_id, track_id)
         IN  /\ db' = r.db
             /\ ret' = r.ret
             /\ args' = <<playlist_id, track_id>>
    /\ diag' = "add_track_to_playlist"
    /\ DbFrame

RemoveTrackFromPlaylist ==
    /\ \E playlist_track_id \in 1..MaxEntries :
         LET r == remove_track_from_playlist(db, playlist_track_id)
         IN  /\ db' = r.db
             /\ ret' = r.ret
             /\ args' = <<playlist_track_id>>
    /\ diag' = "remove_track_from_playlist"
    /\ DbFrame

DeletePlaylist ==
    /\ \E playlist_id \in PlaylistIds :
         LET r == delete_playlist(db, playlist_id)
         IN  /\ db' = r.db
             /\ ret' = r.ret
             /\ args' = <<playlist_id>>
    /\ diag' = "delete_playlist"
    /\ DbFrame

NextPlaylists ==
    \/ CreatePlaylist
    \/ AddTrackToPlaylist
    \/ RemoveTrackFromPlaylist
    \/ DeletePlaylist

SpecPlaylists == InitPlaylists /\ [][NextPlaylists]_vars

-----------------------------------------------------------------------------
(* library_scanner.py: scan_and_populate_library over the files of a library *)

\* the files a library folder can hold: path below the library root, its
\* parts, and the name without its extension
LibraryFiles ==
    {[filepath |-> "a.mp3", path_parts |-> <<"a.mp3">>, stem |-> "a", mp3 |-> TRUE],
     [filepath |-> "Ann/Live/b.mp3", path_parts |-> <<"Ann", "Live", "b.mp3">>, stem |-> "b",
      mp3 |-> TRUE],
     [filepath |-> "notes.txt", path_parts |-> <<"notes.txt">>, stem |-> "notes", mp3 |-> FALSE]}

\* what mutagen reads from an .mp3 file: no ID3 header at all, or the TIT2,
\* TPE1 and TALB frames ("" for a frame that is missing); other files are
\* not read
TagStates(f) ==
    IF f.mp3
    THEN {[header |-> FALSE, TIT2 |-> "", TPE1 |-> "", TALB |-> ""],
          [header |-> TRUE, TIT2 |-> "", TPE1 |-> "", TALB |-> ""],
          [header |-> TRUE, TIT2 |-> "Song", TPE1 |-> "Band", TALB |-> ""]}
    ELSE {[header |-> FALSE, TIT2 |-> "", TPE1 |-> "", TALB |-> ""]}

\* a walk of the library: each file at most once, each with the tags it has
\* at the time of the walk
RECURSIVE Walks(_)
Walks(fs) ==
    {<<>>} \cup UNION {{<<[file |-> f, tags |-> t]>> \o w : w \in Walks(fs \ {f}), t \in TagStates(f)}
                          : f \in fs}

\* the metadata one .mp3 file is stored with
ScannedTrack(f, tags) ==
    IF ~tags.header
    THEN [title |-> f.stem, artist |-> "Unknown Artist", album |-> "Unknown Album"]
    ELSE [title |-> IF tags.TIT2 = "" THEN f.stem ELSE tags.TIT2,
          artist |-> IF tags.TPE1 # "" THEN tags.TPE1
                     ELSE IF Len(f.path_parts) > 2 THEN f.path_parts[1] ELSE "Unknown Artist",
          album |-> IF tags.TALB # "" THEN tags.TALB
                    ELSE IF Len(f.path_parts) > 2 THEN f.path_parts[2] ELSE "Unknown Album"]

\* the table after the walk: add_track for every .mp3 file, in walk order
RECURSIVE scan_and_populate_library(_, _)
scan_and_populate_library(d, walk) ==
    IF walk = <<>> THEN d
    ELSE LET f == Head(walk).file
             m == ScannedTrack(f, Head(walk).tags)
         IN  scan_and_populate_library(
                 IF f.mp3 THEN add_track(d, f.filepath, m.title, m.artist, m.album).db ELSE d,
                 Tail(walk))

InitLibrary ==
    /\ entry = "cli"
    /\ pc = "library_scanner"
    /\ args = <<>>
    /\ creds = TRUE
    /\ catalog = <<>>
    /\ limit = 1
    /\ results = 0
    /\ tracks_to_download = <<>>
    /\ i = 0
    /\ track_item = None
    /\ yt_url_result = NoResult
    /\ youtube_video_url = ""
    /\ dirs = {}
    /\ files = <<>>
    /\ calls = <<>>
    /\ log = <<>>
    /\ ret = "None"
    /\ diag = ""
    /\ result = None
    /\ player = None
    /\ play_pause_button = ""
    /\ focus = ""
    /\ db = NewDatabase

\* a direct call of add_track with the metadata the caller has
AddTrack ==
    /\ \E f \in {g \in LibraryFiles : g.mp3} : \E title \in {f.stem, "Song"} :
         LET r == add_track(db, f.filepath, title, "Unknown Artist", "Unknown Album")
         IN  /\ db' = r.db
             /\ ret' = r.ret
             /\ args' = [filepath |-> f.filepath, title |-> title]
    /\ diag' = "add_track"
    /\ DbFrame

\* Scan Library: the folder holds any of the files, with any tags
ScanLibrary ==
    /\ \E walk \in Walks(LibraryFiles) :
         /\ db' = scan_and_populate_library(db, walk)
         /\ args' = walk
    /\ ret' = "None"
    /\ diag' = "scan_and_populate_library"
    /\ DbFrame

NextLibrary ==
    \/ AddTrack
    \/ ScanLibrary

SpecLibrary == InitLibrary /\ [][NextLibrary]_vars

-----------------------------------------------------------------------------
(* Reading the history *)

\* the console lines about items, in the order printed
ItemLines == SelectSeq(log, LAMBDA l : l.item >= 1)

\* item k has a console line saying msg
Said(k, msg) == \E j \in DOMAIN log : log[j] = Line(k, msg)

\* an external call or a fetch step was issued for item k
Called(k, op) == \E j \in DOMAIN calls : calls[j].item = k /\ calls[j].op = op

\* the loop body was entered for item k
Attempted(k) ==
    \/ \E j \in DOMAIN log : log[j].item = k
    \/ \E j \in DOMAIN calls : calls[j].item = k
    \/ (i = k /\ pc \in {"locate", "fetch", "fetched"})

\* the loop over tracks_to_download was entered
BatchStarted == i >= 1

\* the listing as the provider pages it
AllPages == PagesUpTo(catalog, limit, NumPages(catalog, limit))

\* the item the loop body works on for position k, once its details are there
Descriptor(k) == FullTrack(tracks_to_download[k])

-----------------------------------------------------------------------------
(* Claims *)

\* C1: when process_spotify_link returns from a batch whose loop was entered,
\* every descriptor of tracks_to_download has been attempted, whatever
\* happened to the items before it (a failure outcome or an exception).
C1_EveryItemAttempted ==
    (pc = "returned" /\ BatchStarted) =>
        \A k \in 1..Len(tracks_to_download) : Attempted(k)

\* C2: when a batch run returns, every descriptor of the batch has exactly one
\* recorded outcome line, so that the recorded outcomes number as many as the
\* descriptors; no item is without a record.
C2_ReportComplete ==
    (pc = "returned" /\ BatchStarted) =>
        /\ Len(ItemLines) = Len(tracks_to_download)
        /\ \A k \in 1..Len(tracks_to_download) :
               Cardinality({j \in DOMAIN log : log[j].item = k}) = 1

\* C3: a command-line run with a Spotify track or album URL and both
\* credentials set is, once the command-line block has run, inside the catalog
\* pipeline (process_spotify_link), and a run with a YouTube URL is in
\* download_audio or has ended after it.
C3_CliReachesPipeline ==
    (entry = "cli" /\ pc # "main") =>
        /\ (args.url \in {"spotify_track", "spotify_album"} /\ creds) =>
               pc \in {"process_spotify_link", "resolve", "paginate", "item",
                       "locate", "fetch", "fetched", "returned"}
        /\ args.url = "youtube" => pc \in {"download_audio", "end", "OSError"}

\* the stem the claim describes: the zero-padded number and the sanitized
\* title when the record carries a number, the sanitized title alone otherwise
C4_Stem(item) ==
    IF item.has_number
    THEN zfill(StrOfNat(item.track_number), 2) \o <<" ", "-", " ">>
             \o sanitize_filename(item.name)
    ELSE sanitize_filename(item.name)

\* C4: the file a simulated fetch names is <stem>.mp3 with the stem of the
\* claim: "NN - title" for a numbered record, the bare title for a record
\* without a number (Intro.mp3, 01 - Song A.mp3, 02 - Song B.mp3).
C4_StemRule ==
    (pc = "fetched" /\ args.simulate /\ diag = "created") =>
        /\ ret \in DOMAIN files
        /\ ret[Len(ret)] = Str(C4_Stem(track_item) \o <<".", "m", "p", "3">>)

\* C5: once item processing has begun for an album, tracks_to_download holds
\* every entry of every page of the listing: it is the concatenation of all
\* the pages, and as long as the page sizes added up.
C5_PaginationComplete ==
    (args.url = "spotify_album" /\ BatchStarted) =>
        /\ tracks_to_download = AllPages
        /\ Len(tracks_to_download) = SumOfPageSizes(catalog, limit, NumPages(catalog, limit))

\* an album of three entries served in two pages is being processed
C5_Witness ==
    /\ args.url = "spotify_album"
    /\ pc = "locate"
    /\ NumPages(catalog, limit) = 2
    /\ Len(Page(catalog, limit, 1)) = 2
    /\ Len(tracks_to_download) = 3

\* C6: the list built from an album is at every moment the pages fetched so
\* far in pagination order; the loop works on position i of it; and the j-th
\* outcome line is about position j, whether or not items before it failed.
C6_CatalogOrder ==
    /\ args.url = "spotify_album" => tracks_to_download = PagesUpTo(catalog, limit, results)
    /\ pc \in {"locate", "fetch", "fetched"} => track_item = Descriptor(i)
    /\ \A j \in DOMAIN ItemLines : ItemLines[j].item = j
    /\ \A a, b \in DOMAIN calls : (a < b) => calls[a].item <= calls[b].item

\* a batch of three distinct entries in two pages has returned; its second
\* item failed at the locator and its first and third went to the fetch step
C6_Witness ==
    /\ pc = "returned"
    /\ args.url = "spotify_album"
    /\ NumPages(catalog, limit) = 2
    /\ Len(tracks_to_download) = 3
    /\ tracks_to_download[1] # tracks_to_download[3]
    /\ Said(1, "fetch_step_ran")
    /\ Said(2, "no_video_found")
    /\ Said(3, "fetch_step_ran")

\* C7: the fetch step is entered only while a successful search result
\* (exit code 0, a non-empty result) is held for the current item; an item
\* whose search found nothing has the line "no video found" and no fetch
\* step or tool run; an item left behind after a search without a fetch step
\* has that line; every fetch step of an item follows a search for it.
C7_NoFetchWithoutLocate ==
    /\ pc \in {"fetch", "fetched"} => (yt_url_result.rc = 0 /\ yt_url_result.found)
    /\ \A k \in 1..Len(tracks_to_download) :
           Said(k, "no_video_found") =>
               /\ ~Called(k, "download_youtube_track_for_spotify")
               /\ ~Called(k, "yt-dlp")
    /\ \A k \in 1..Len(tracks_to_download) :
           (Called(k, "ytsearch1") /\ ~Called(k, "download_youtube_track_for_spotify") /\ i > k) =>
               Said(k, "no_video_found")
    /\ \A a \in DOMAIN calls :
           calls[a].op = "download_youtube_track_for_spotify" =>
               \E b \in 1..(a - 1) : calls[b] = Call("ytsearch1", calls[a].item, 0, "")

\* an item was skipped on a locator miss and a later item was fetched
C7_Witness ==
    /\ pc = "fetched"
    /\ i = 2
    /\ Said(1, "no_video_found")
    /\ ~Called(1, "download_youtube_track_for_spotify")
    /\ Called(2, "download_youtube_track_for_spotify")

\* C8: two items of a batch that both went to the fetch step have the same
\* output path only if their titles and track numbers are the same.
C8_NoPathCollision ==
    \A a, b \in 1..Len(tracks_to_download) :
        ( /\ Called(a, "download_youtube_track_for_spotify")
          /\ Called(b, "download_youtube_track_for_spotify")
          /\ item_path(Descriptor(a)) = item_path(Descriptor(b)) ) =>
            /\ tracks_to_download[a].name = tracks_to_download[b].name
            /\ tracks_to_download[a].has_number = tracks_to_download[b].has_number
            /\ tracks_to_download[a].track_number = tracks_to_download[b].track_number

\* C9: no step deletes a file or changes the content of a file that exists.
C9_NoOverwrite ==
    [][\A p \in DOMAIN files : p \in DOMAIN files' /\ files'[p] = files[p]]_vars

\* C10: a simulated fetch returns a path exactly when it wrote the placeholder,
\* and the path it returns is a file that exists.
C10_SimulateSuccessIffWritten ==
    (pc = "fetched" /\ args.simulate) =>
        /\ (ret # None) <=> (diag = "created")
        /\ (ret # None) => ret \in DOMAIN files

\* the runs of the fetch/transcode tool (yt-dlp), in any of its modes
ToolRuns == {j \in DOMAIN calls : calls[j].op \in {"yt-dlp", "yt-dlp --get-filename", "yt-dlp --print json"}}

\* C11: in a run with --simulate the fetch/transcode tool is never run, for a
\* catalog reference and for a direct media URL alike; every file that exists
\* is a placeholder, and a simulated fetch step names the placeholder
\* <item directory>/<stem>.mp3.
C11_SimulateNeverRunsTool ==
    args.simulate =>
        /\ ToolRuns = {}
        /\ \A p \in DOMAIN files : files[p].kind = "placeholder"
        /\ pc = "fetched" => ret = item_path(track_item)

\* the directory the claim describes: Music/<sanitized complete name of the
\* first artist of the record>/<sanitized album>
C12_Dir(item) ==
    PathJoin(<<"Music", Str(sanitize_filename(item.artists[1])), Str(s_album(item))>>)

\* C12: when the fetch step of an item whose record names an artist has run,
\* the directory made for it, and the directory of the path a simulated fetch
\* returns, is Music/sanitize(complete name of the first artist)/sanitize(album),
\* whatever characters the name holds.
C12_TargetDirectory ==
    (pc = "fetched" /\ track_item.artists # <<>>) =>
        /\ C12_Dir(track_item) \in dirs
        /\ args.simulate => SubSeq(ret, 1, Len(ret) - 1) = C12_Dir(track_item)

\* the search for item k could not start the tool executable
ToolMissingAt(k) == \E j \in DOMAIN calls : calls[j] = Call("ytsearch1", k, 0, "FileNotFoundError")

\* C13: when the run has returned and the tool executable was missing at an
\* item, that item has an outcome line of its own and every later item of the
\* batch was attempted.
C13_ToolMissingPerItem ==
    \A k \in 1..Len(tracks_to_download) :
        (pc = "returned" /\ ToolMissingAt(k)) =>
            /\ \E j \in DOMAIN log : log[j].item = k
            /\ \A m \in (k + 1)..Len(tracks_to_download) : Attempted(m)

\* the batch-level lines of the conditions that end the run before the loop
FatalLines == {"no_credentials", "no_metadata", "no_tracks", "unsupported_url",
               "spotify_api_error", "unexpected_error"}

\* a locator search, a fetch step or a tool run is in the call history
ItemWorkIssued ==
    \E j \in DOMAIN calls :
        calls[j].op \in {"ytsearch1", "download_youtube_track_for_spotify", "yt-dlp"}

\* C14: a run of process_spotify_link that has returned without entering the
\* loop (credentials absent, track or album not resolved, unsupported
\* reference) issued no locator search and no fetch, made no directory and no
\* file, and printed exactly one line, a batch-level one; a command-line run
\* ended for missing credentials or an unrecognised URL did none of these either.
C14_FatalBeforeAnyItem ==
    /\ (pc = "returned" /\ ~BatchStarted) =>
           /\ ~ItemWorkIssued
           /\ dirs = {} /\ files = <<>>
           /\ Len(log) = 1 /\ log[1].item = 0 /\ log[1].msg \in FatalLines
           /\ track_item = None
    /\ (pc = "exit" \/ (pc = "end" /\ args.url # "youtube")) =>
           /\ calls = <<>> /\ log = <<>>
           /\ dirs = {} /\ files = <<>>

\* an album whose listing holds tracks could not be resolved: the run returned
\* with the one line "no metadata"
C14_Witness ==
    /\ pc = "returned"
    /\ args.url = "spotify_album"
    /\ Len(catalog) >= 2
    /\ log = <<Line(0, "no_metadata")>>
    /\ calls = <<Call("sp.album", 0, 0, "none")>>

\* the lines of a stdout that hold more than white space, in order
C15_PrintedLines(stdout) == SelectSeq(Split(stdout, "\n"), LAMBDA l : Strip(l) # <<>>)

\* C15: after a real-mode tool run with exit code 0, the value returned is a
\* path exactly when stdout has a non-blank line and the last such line
\* (stripped) is a path that exists; the path returned is that line; when the
\* printed path does not exist or nothing was printed the diagnostic is a
\* path mismatch and nothing is returned.
C15_PathFromLastLine ==
    (pc = "fetch_returned" /\ result.raised = "" /\ result.returncode = 0) =>
        LET printed == C15_PrintedLines(result.stdout)
            last == IF printed = <<>> THEN None ELSE Strip(printed[Len(printed)])
        IN  /\ (ret # None) <=> (printed # <<>> /\ last \in DOMAIN files)
            /\ (ret # None) => (ret = last /\ diag = "ok_path_exists")
            /\ (ret = None) => diag \in {"ok_path_missing", "ok_no_path"}
            /\ (diag = "ok_no_path") <=> (printed = <<>>)

\* the tool printed two paths, the first of which does not exist and the
\* last of which does, and the last one was returned
C15_Witness ==
    /\ pc = "fetch_returned"
    /\ result.raised = "" /\ result.returncode = 0
    /\ result.stdout = <<"a", "\n", "b", "\n">>
    /\ DOMAIN files = {<<"b">>}
    /\ ret = <<"b">>

\* C16: after a real-mode tool run with a non-zero exit code, the diagnostic
\* is the access-denial one exactly when stderr contains "HTTP Error 403", and
\* the value returned tells the two kinds apart: a run with another stderr
\* that returns the same value is of the same kind.
C16_BlockedDistinguished ==
    (pc = "fetch_returned" /\ result.raised = "" /\ result.returncode # 0) =>
        /\ (diag = "error_403") <=> Contains(result.stderr, HTTP403)
        /\ diag \in {"error_403", "error_other"}
        /\ \A e \in Stderrs :
               ToolReturn([result EXCEPT !.stderr = e], DOMAIN files) = ret =>
                   (Contains(e, HTTP403) <=> Contains(result.stderr, HTTP403))

\* C17: sanitize_filename applied to a name it returned gives that name
\* again, for names shorter and longer than 150 characters and for names a
\* replacement lengthens before the cut.
C17_Idempotent ==
    pc = "resanitized" =>
        /\ calls[2].name = calls[1].value
        /\ calls[2].value = calls[1].value
        /\ ret = calls[1].value

\* a name of more than 150 characters whose colon is replaced by two
\* characters, so that the cut falls on text the replacement pushed back,
\* has been sanitized twice
C17_Witness ==
    /\ pc = "resanitized"
    /\ Len(calls[1].name) > MaxNameLen
    /\ calls[1].name[1] = ":"
    /\ calls[1].name[Len(calls[1].name)] = ":"
    /\ Len(calls[1].value) < MaxNameLen
    /\ calls[1].value # calls[1].name

\* C18: whatever the name, the value sanitize_filename returns holds none of
\* / \ : * ? " < > |, is at most 150 characters long, neither begins nor ends
\* with white space, and is empty for the empty name.
C18_SafeName ==
    pc \in {"sanitized", "resanitized"} =>
        /\ \A k \in DOMAIN ret : ret[k] \notin Problematic
        /\ Len(ret) <= MaxNameLen
        /\ ret # <<>> => (ret[1] \notin Whitespace /\ ret[Len(ret)] \notin Whitespace)
        /\ args.name = <<>> => ret = <<>>
        /\ ret = calls[Len(calls)].value

\* a name of more than 150 characters that begins with a colon has been
\* sanitized: the value begins with the hyphen that replaced it
C18_Witness ==
    /\ pc = "sanitized"
    /\ Len(args.name) > MaxNameLen
    /\ args.name[1] = ":"
    /\ ret[1] = "-"
    /\ Len(ret) = MaxNameLen - 1

\* the per-track catalog fetches issued for item k
DetailFetches(k) == {j \in DOMAIN calls : calls[j].op = "sp.track" /\ calls[j].item = k}

\* item k is past the point where its details are fetched
PastDetails(k) == i > k \/ (i = k /\ pc \in {"locate", "fetch", "fetched"})

\* C19: for every entry of an album's listing: an entry without the album
\* field that has an id gets at most one per-track fetch, exactly one once it
\* is past that point, and it comes before its search; a full entry and an
\* entry without id get none; an entry without album and without id, once
\* passed, has the line "missing id" and no call at all, and the loop has
\* gone on to the next index.
C19_ThinEntryOneFetch ==
    args.url = "spotify_album" =>
        \A k \in 1..Len(tracks_to_download) :
            LET e == tracks_to_download[k]
            IN  /\ (e.thin /\ e.id # "") =>
                       /\ Cardinality(DetailFetches(k)) <= 1
                       /\ PastDetails(k) => Cardinality(DetailFetches(k)) = 1
                       /\ \A b \in DOMAIN calls :
                              (calls[b].item = k /\ calls[b].op = "ytsearch1") =>
                                  \E a \in DetailFetches(k) : a < b
                /\ (~e.thin \/ e.id = "") => DetailFetches(k) = {}
                /\ (e.thin /\ e.id = "" /\ i > k) =>
                       /\ Said(k, "missing_id")
                       /\ \A j \in DOMAIN calls : calls[j].item # k
                /\ Said(k, "missing_id") => (i > k /\ e.thin /\ e.id = "")

\* an album of an entry without album field, an entry without id and a full
\* entry has been worked through: one detail fetch, one skip, and the full
\* entry after the skip went to its fetch step
C19_Witness ==
    /\ pc = "returned"
    /\ args.url = "spotify_album"
    /\ tracks_to_download = <<E_SongA, E_NoId, E_Intro>>
    /\ Cardinality(DetailFetches(1)) = 1
    /\ Said(2, "missing_id")
    /\ DetailFetches(3) = {}
    /\ Said(3, "fetch_step_ran")

\* the place of an external call in the work on one item
Stage(op) ==
    IF op = "sp.track" THEN 1
    ELSE IF op = "ytsearch1" THEN 2
    ELSE IF op = "download_youtube_track_for_spotify" THEN 3
    ELSE 4

\* C20: the external calls of a catalog batch are issued item by item: a call for an
\* earlier item is never issued after a call for a later item, no call is
\* issued for an item the loop has not reached, and within one item the
\* detail fetch, the search, the fetch step and the tool run come in that
\* order, each at most once.
C20_Sequential ==
    args.url \in {"spotify_track", "spotify_album"} =>
        /\ \A a, b \in DOMAIN calls :
               (a < b /\ calls[a].item >= 1) =>
                   \/ calls[a].item < calls[b].item
                   \/ /\ calls[a].item = calls[b].item
                      /\ Stage(calls[a].op) < Stage(calls[b].op)
        /\ \A a \in DOMAIN calls : calls[a].item <= i
        /\ \A a, b \in DOMAIN calls : (a < b /\ calls[b].item = 0) => calls[a].item = 0

\* a batch of three items run in real mode has returned with a tool run for
\* each item, the second item having needed a detail fetch
C20_Witness ==
    /\ pc = "returned"
    /\ Len(tracks_to_download) = 3
    /\ tracks_to_download[2] = E_SongA
    /\ Called(2, "sp.track")
    /\ \A k \in 1..3 : Called(k, "ytsearch1") /\ Called(k, "yt-dlp")

\* the calls of kind op issued for item k
CallsOf(k, op) == {j \in DOMAIN calls : calls[j].item = k /\ calls[j].op = op}

\* C21: in a catalog batch no item ever has more than one locator search, one
\* fetch step or one tool run, and every step that issues external calls
\* issues them for the item the loop is at: once the loop has left an item,
\* whatever its outcome, no call is made for it again.
C21_OneAttempt ==
    /\ [](args.url \in {"spotify_track", "spotify_album"} =>
            \A k \in 1..Len(tracks_to_download) :
                /\ Cardinality(CallsOf(k, "ytsearch1")) <= 1
                /\ Cardinality(CallsOf(k, "download_youtube_track_for_spotify")) <= 1
                /\ Cardinality(CallsOf(k, "yt-dlp")) <= 1)
    /\ [][args.url \in {"spotify_track", "spotify_album"} =>
            /\ Len(calls') >= Len(calls)
            /\ \A j \in (Len(calls) + 1)..Len(calls') : calls'[j].item = i
            /\ i' >= i]_vars

\* a real-mode batch of three items has returned: the second item failed at
\* its search, the others went through one search and one tool run each
C21_Witness ==
    /\ pc = "returned"
    /\ ~args.simulate
    /\ Len(tracks_to_download) = 3
    /\ Said(2, "no_video_found")
    /\ Cardinality(CallsOf(2, "ytsearch1")) = 1
    /\ CallsOf(2, "yt-dlp") = {}
    /\ Cardinality(CallsOf(1, "yt-dlp")) = 1
    /\ Cardinality(CallsOf(3, "yt-dlp")) = 1

\* C22: the directory of an item is built twice from the same sanitized
\* artist and album: both builds give the same path, the directory exists
\* after either build that returned, and the second build never raises.
C22_PathDeterminism ==
    /\ \A j \in DOMAIN calls : calls[j].raised = "" => calls[j].path \in dirs
    /\ Len(calls) = 2 =>
           /\ calls[2].path = calls[1].path
           /\ calls[2].raised = ""
           /\ ~calls[2].created
    /\ pc = "made" => (Len(calls) = 2 /\ ret = calls[1].path /\ ret \in dirs)

\* the directory of the record with the artist "Al, Jr" did not exist, was
\* made by the first build and found by the second
C22_Witness ==
    /\ pc = "made"
    /\ track_item = N_Comma
    /\ calls[1].created
    /\ calls[2].path = <<"Music", "Al", "Demo">>
    /\ <<"Music", "Al", "Demo">> \in dirs

\* the record names no artist: no artist list, or no artist in it has a name
NoArtist(item) == \A k \in DOMAIN item.artists : item.artists[k] = <<>>

\* C23: a record that names no artist is worked on as by "Unknown Artist"
\* (in the search query and as the artist directory), a record without album
\* name as of "Unknown Album"; with both missing the directory made is
\* Music/Unknown Artist/Unknown Album, with one missing the other part is the
\* sanitized known name.
C23_UnknownDefaults ==
    calls # <<>> =>
        LET path == calls[1].path
        IN  /\ Len(path) = 3
            /\ NoArtist(track_item) =>
                   /\ path[2] = "Unknown Artist"
                   /\ artist_names(track_item) = UnknownArtist
                   /\ youtube_video_url =
                          "yt:" \o Str(track_item.name) \o " Unknown Artist audio"
            /\ track_item.album_name = <<>> => path[3] = "Unknown Album"
            /\ (NoArtist(track_item) /\ track_item.album_name = <<>>) =>
                   path = <<"Music", "Unknown Artist", "Unknown Album">>
            /\ track_item.album_name # <<>> =>
                   path[3] = Str(sanitize_filename(track_item.album_name))
            /\ (~NoArtist(track_item) /\ Len(track_item.artists) = 1) =>
                   path[2] = Str(sanitize_filename(SplitFirst(track_item.artists[1], ",")))

\* the directory of a record without artists and without album name was made
C23_Witness ==
    /\ pc = "made"
    /\ track_item = N_Anon
    /\ calls[1].created
    /\ <<"Music", "Unknown Artist", "Unknown Album">> \in dirs

\* C25: in every state of AudioPlayer reached by calls of load_song,
\* play_song, pause_song, unpause_song and stop_song, playing implies that a
\* song is loaded (current_song_path is not None).
C25_PlayingHasSong == player.playing => player.current_song_path # NoSong

\* C24: after a double click whose load_song succeeded, the music of the
\* selected track is playing: it is the loaded music, the engine plays it and
\* the player says so, whatever the state was before the click.
C24_DoubleClickPlays ==
    (diag = "on_track_double_click" /\ ret = "True") =>
        /\ player.loaded = TrackFiles[focus]
        /\ player.current_song_path = TrackFiles[focus]
        /\ player.busy = "playing"
        /\ player.playing /\ ~player.paused

\* C26: after any double clicks and presses of Play/Pause and Stop, the
\* Play/Pause button reads "Pause" exactly when the player is playing and
\* not paused, and "Play" otherwise.
C26_ButtonMatchesPlayer ==
    /\ play_pause_button \in {"Play", "Pause"}
    /\ (play_pause_button = "Pause") <=> (player.playing /\ ~player.paused)

\* C27: once delete_playlist(p) has returned True, no row of playlist_tracks
\* refers to playlist p.
C27_DeleteRemovesEntries ==
    (diag = "delete_playlist" /\ ret = "True") =>
        \A k \in DOMAIN db.playlist_tracks : db.playlist_tracks[k].playlist_id # args[1]

\* C28: after any adds and removes, the sequence numbers of one playlist are
\* pairwise distinct and get_tracks_in_playlist returns the entries that
\* remain in the playlist, in the order in which they were added.
C28_OrderOfAddition ==
    \A playlist_id \in PlaylistIds :
        LET InPlaylist(pt) == pt.playlist_id = playlist_id
            remaining == SelectSeq(db.playlist_tracks, InPlaylist)
            got == get_tracks_in_playlist(db, playlist_id)
        IN  /\ \A j, k \in DOMAIN remaining :
                   j # k => remaining[j].sequence # remaining[k].sequence
            /\ [k \in DOMAIN got |-> got[k].playlist_track_id]
                   = [k \in DOMAIN remaining |-> remaining[k].id]

\* C29: add_track with a filepath the tracks table already holds returns the
\* id of the row that holds it and leaves the table as it was (same rows,
\* same metadata); a scan of a library whose .mp3 files are all in the table
\* leaves the table as it was.
C29_NoDuplicates ==
    [][/\ (diag' = "add_track" /\ args'.filepath \in {db.tracks[x].filepath : x \in DOMAIN db.tracks}) =>
             /\ \E k \in DOMAIN db.tracks :
                   db.tracks[k].filepath = args'.filepath /\ ret' = db.tracks[k].id
             /\ db' = db
       /\ (diag' = "scan_and_populate_library"
             /\ \A k \in DOMAIN args' :
                   args'[k].file.mp3 => args'[k].file.filepath \in {db.tracks[x].filepath : x \in DOMAIN db.tracks}) =>
             db' = db]_vars

\* a library of two .mp3 files has been scanned again after the tags of a
\* file were edited: the row still holds what the first scan stored
C29_Witness ==
    /\ diag = "scan_and_populate_library"
    /\ Len(db.tracks) = 2
    /\ \E k \in DOMAIN args, j \in DOMAIN db.tracks :
          /\ args[k].file.filepath = db.tracks[j].filepath
          /\ ScannedTrack(args[k].file, args[k].tags).title # db.tracks[j].title

\* C30: the loop over the next-page cursor ends, also after a next-page
\* request that gave an empty page or no result at all, and the run goes on
\* to item processing: it is never over before the item loop has started
\* once such a request has been answered.
C30_PaginationGoesOn ==
    \A j \in DOMAIN calls :
        (calls[j].op = "sp.next" /\ calls[j].out \in {"ok", "none"}) =>
            (pc = "returned" => i > 0 \/ tracks_to_download = <<>>)

====
